---- MODULE Spec2Model ----
(***************************************************************************)
(* XNavLib: the client facade of roborio_library (XNavLib.h, XNavLib.cpp), *)
(* in the build with WPILIB_AVAILABLE defined.                             *)
(*                                                                         *)
(* The topic fabric (ntcore) is represented by the values it holds per    *)
(* topic, the number of live subscriber and publisher handles per topic,  *)
(* and the set of peer connections.  A topic value is <<>> while nothing  *)
(* was received and <<v>> afterwards.  Doubles are small integers.  A     *)
(* 64-bit integer of the wire is the pair of its 32-bit words, so that     *)
(* static_cast<int> keeps its meaning at the real width.                   *)
(***************************************************************************)
EXTENDS Integers, Sequences, FiniteSets, TLC

VARIABLES
    table,           \* Impl::table: Null before Init, the table name after
    server,          \* the server address given to inst.SetServer, "" if none
    started,         \* inst.StartClient4 was called
    connections,     \* inst.GetConnections(): the set of live peers
    subscriptions,   \* live subscriber handles per fixed topic path
    publishers,      \* live publisher handles per input topic path
    topics,          \* values received per fixed topic path
    tag_topics,      \* values received per targets/<id>/<field>
    tag_subs,        \* Impl::tag_subs: tag id -> the subscriber set stored for it
    opened,          \* subscriber sets opened so far per targets/<id>/
    input,           \* values published per input topic, oldest first
    on_new_targets,  \* Impl::on_new_targets
    invoked,         \* callbacks invoked so far, oldest first
    traffic,         \* some publication was received since construction
    th,              \* per application thread: position and locals of its call
    ret              \* per application thread: the last call completed, what it
                     \* returned, and the parity of the calls completed

vars == <<table, server, started, connections, subscriptions, publishers, topics,
          tag_topics, tag_subs, opened, input, on_new_targets, invoked, traffic,
          th, ret>>

-----------------------------------------------------------------------------
(* Bounds and input sets *)

MaxIds == 2          \* longest tagIds sequence published while targets are listed
MaxPoseLen == 7      \* longest robotPose sequence published
MaxLog == 2          \* publications kept per input topic

Null == "null"
TableName == "XNav"
NoCallback == "none"
Callbacks == {"cb1", "cb2"}
Servers == {"", "10.0.0.2"}
Threads == {"t1", "t2"}
MainThread == {"t1"}

\* A 64-bit integer hi * 2^32 + lo, lo the signed low word.
I64(h, l) == [hi |-> h, lo |-> l]

\* static_cast<int>(v) of a 64-bit v: the low 32 bits.
Narrow(v) == v.lo

WireIds == {I64(-1, -2), I64(0, 0), I64(1, 0)}
WirePrimaryIds == {I64(-1, -1), I64(0, 0), I64(1, -2)}
WireCounts == {I64(0, 1), I64(1, 2)}
QueryIds == {-2, 0, 3}
IdSpace == {Narrow(w) : w \in WireIds \cup WirePrimaryIds} \cup QueryIds

\* The tagIds lists published while single targets are looked up.
LookupFeeds == {<<>>, <<I64(0, 0)>>, <<I64(-1, -2)>>, <<I64(1, 0)>>,
                <<I64(-1, -2), I64(0, 0)>>}
Angles == {0, 45}

RootPaths == {"hasTarget", "numTargets", "primaryTagId", "status", "fps",
              "latencyMs", "robotPose", "tagIds"}
OffsetPaths == {"offsetPoint/valid", "offsetPoint/x", "offsetPoint/y",
                "offsetPoint/z", "offsetPoint/directDistance", "offsetPoint/tx",
                "offsetPoint/ty", "offsetPoint/tag_id"}
SubPaths == RootPaths \cup OffsetPaths
InputPaths == {"input/turretAngle", "input/turretEnabled", "input/matchMode"}
TagFields == {"tx", "ty", "x", "y", "z", "distance", "yaw", "pitch", "roll"}

\* The tagIds lists published while two threads query.
SharedFeeds == {<<I64(0, 0)>>, <<I64(-1, -2), I64(0, 0)>>}

\* The per-tag publications the coprocessor makes in the model.
TagUpdates == {<<0, "tx", 1>>, <<-2, "yaw", 2>>}

\* Sequences over S of length at most n.
RECURSIVE SeqsUpTo(_, _)
SeqsUpTo(S, n) ==
    IF n = 0 THEN {<<>>}
    ELSE LET shorter == SeqsUpTo(S, n - 1)
         IN  shorter \cup {Append(s, x) : s \in {q \in shorter : Len(q) = n - 1}, x \in S}

\* The robotPose sequences published: a + 1, a + 2, ... of every length up to
\* MaxPoseLen, so that every element differs from its neighbours and from zero.
PoseFeeds == {[k \in 1..n |-> a + k] : n \in 0..MaxPoseLen, a \in {0, 10}}

Range(s) == {s[k] : k \in DOMAIN s}

-----------------------------------------------------------------------------
(* Value types (XNavLib.h) *)

DefaultTagResult ==
    [id |-> -1, tx |-> 0, ty |-> 0, x |-> 0, y |-> 0, z |-> 0, distance |-> 0,
     yaw |-> 0, pitch |-> 0, roll |-> 0]

DefaultRobotPose ==
    [x |-> 0, y |-> 0, z |-> 0, roll |-> 0, pitch |-> 0, yaw_deg |-> 0, valid |-> FALSE]

DefaultOffsetPoint ==
    [tag_id |-> -1, x |-> 0, y |-> 0, z |-> 0, direct_distance |-> 0, tx |-> 0,
     ty |-> 0, valid |-> FALSE]

-----------------------------------------------------------------------------
(* The state after XNav::XNav *)

IdleThread == [pc |-> "idle", op |-> "none", arg |-> 0, ids |-> <<>>, todo |-> <<>>,
               k |-> 0, out |-> <<>>, id |-> 0, h |-> 0]
NoReturn == [op |-> "none", arg |-> 0, ids |-> <<>>, val |-> <<>>, n |-> 0]

Construct ==
    /\ table = Null
    /\ server = ""
    /\ started = FALSE
    /\ connections = {}
    /\ subscriptions = [p \in SubPaths |-> 0]
    /\ publishers = [p \in InputPaths |-> 0]
    /\ topics = [p \in SubPaths |-> <<>>]
    /\ tag_topics = [i \in IdSpace |-> [f \in TagFields |-> <<>>]]
    /\ tag_subs = <<>>
    /\ opened = [i \in IdSpace |-> 0]
    /\ input = [p \in InputPaths |-> <<>>]
    /\ on_new_targets = NoCallback
    /\ invoked = <<>>
    /\ traffic = FALSE
    /\ th = [t \in Threads |-> IdleThread]
    /\ ret = [t \in Threads |-> NoReturn]

-----------------------------------------------------------------------------
(* The topic fabric as the facade uses it *)

\* Topic::Subscribe / Topic::Publish: one more live handle on the topic.
Subscribe(n) == n + 1

\* An assignment that leaves the handle the member held alive.
Assign_NoRelease(held, n) == Subscribe(n)

\* Assigning a handle to a member releases the handle the member held.
Assign(held, n) == IF held THEN Subscribe(n) - 1 ELSE Subscribe(n)

\* Subscriber::Get on a fixed topic: the value received, else the default.
\* A member that was never bound (no Init yet) holds no handle and yields the default.
Get(path, default) ==
    IF table # Null /\ Len(topics[path]) > 0 THEN topics[path][1] ELSE default

\* Subscriber::Get on a field of the subscriber set of tag id.
TagGet(id, field, default) ==
    IF Len(tag_topics[id][field]) > 0 THEN tag_topics[id][field][1] ELSE default

\* Subscriber sets for targets/<id>/ that are alive: the one the map stores and
\* those a thread has built and not yet stored.
TagLive(id) ==
    {tag_subs[i] : i \in {j \in DOMAIN tag_subs : j = id}}
        \cup {th[t].h : t \in {u \in Threads : th[u].pc = "insert" /\ th[u].id = id}}

\* Thread t returns v from call o(a), which read the tag ids i; n is the parity of
\* the calls t has completed.
Returned(t, o, a, i, v) ==
    [ret EXCEPT ![t] = [op |-> o, arg |-> a, ids |-> i, val |-> v, n |-> 1 - ret[t].n]]

-----------------------------------------------------------------------------
(* XNav::Init -> Impl::Init *)

Init(t, s) ==
    /\ th[t].pc = "idle"
    /\ table' = TableName
    /\ subscriptions' = [p \in SubPaths |-> Assign(table # Null, subscriptions[p])]
    /\ publishers' = [p \in InputPaths |-> Assign(table # Null, publishers[p])]
    /\ server' = IF s # "" THEN s ELSE server
    /\ started' = TRUE
    /\ ret' = Returned(t, "Init", s, <<>>, <<>>)
    /\ UNCHANGED <<connections, topics, tag_topics, tag_subs, opened, input,
                   on_new_targets, invoked, traffic, th>>

-----------------------------------------------------------------------------
(* The transport's own threads: connection and delivery of publications *)

Connect ==
    /\ started
    /\ connections = {}
    /\ connections' = {"server"}
    /\ UNCHANGED <<table, server, started, subscriptions, publishers, topics,
                   tag_topics, tag_subs, opened, input, on_new_targets, invoked,
                   traffic, th, ret>>

\* The peer goes away.  Whether the values received stay readable is the
\* transport's policy: both outcomes are allowed.
Disconnect(keep) ==
    /\ connections # {}
    /\ connections' = {}
    /\ topics' = IF keep THEN topics ELSE [p \in SubPaths |-> <<>>]
    /\ tag_topics' = IF keep THEN tag_topics
                     ELSE [i \in IdSpace |-> [f \in TagFields |-> <<>>]]
    /\ UNCHANGED <<table, server, started, subscriptions, publishers, tag_subs,
                   opened, input, on_new_targets, invoked, traffic, th, ret>>

\* A value arrives on a fixed topic the client subscribes to.
Deliver(path, v) ==
    /\ connections # {}
    /\ subscriptions[path] > 0
    /\ topics' = [topics EXCEPT ![path] = <<v>>]
    /\ traffic' = TRUE
    /\ UNCHANGED <<table, server, started, connections, subscriptions, publishers,
                   tag_topics, tag_subs, opened, input, on_new_targets, invoked,
                   th, ret>>

\* A value arrives on targets/<id>/<field>, subscribed to by a live subscriber set.
DeliverTag(id, field, v) ==
    /\ connections # {}
    /\ TagLive(id) # {}
    /\ tag_topics' = [tag_topics EXCEPT ![id][field] = <<v>>]
    /\ traffic' = TRUE
    /\ UNCHANGED <<table, server, started, connections, subscriptions, publishers,
                   topics, tag_subs, opened, input, on_new_targets, invoked, th, ret>>

PubTagIds(feeds) == \E s \in feeds : Deliver("tagIds", s)
PubPrimaryTagId == \E w \in WirePrimaryIds : Deliver("primaryTagId", w)
PubTagField == \E u \in TagUpdates : DeliverTag(u[1], u[2], u[3])
PubRobotPose == \E s \in PoseFeeds : Deliver("robotPose", s)
PubHasTarget == Deliver("hasTarget", TRUE)
PubNumTargets == \E w \in WireCounts : Deliver("numTargets", w)
PubStatus == Deliver("status", "running")
PubFps == Deliver("fps", 1)
PubLatency == Deliver("latencyMs", 2)
PubOffset ==
    \/ Deliver("offsetPoint/valid", TRUE)
    \/ Deliver("offsetPoint/tag_id", I64(0, 0))
    \/ Deliver("offsetPoint/x", 1)

-----
(* Queries that only read subscribers *)

HasTarget == Get("hasTarget", FALSE)

GetNumTargets == Narrow(Get("numTargets", I64(0, 0)))

GetTagIds ==
    LET raw == Get("tagIds", <<>>)
    IN  [k \in DOMAIN raw |-> Narrow(raw[k])]

\* GetRobotPose asking for more than six elements.
GetRobotPose_SevenNeeded ==
    LET data == Get("robotPose", <<>>)
    IN  IF Len(data) > 6
        THEN [x |-> data[1], y |-> data[2], z |-> data[3], roll |-> data[4],
              pitch |-> data[5], yaw_deg |-> data[6], valid |-> TRUE]
        ELSE DefaultRobotPose

GetRobotPose ==
    LET data == Get("robotPose", <<>>)
    IN  IF Len(data) >= 6
        THEN [x |-> data[1], y |-> data[2], z |-> data[3], roll |-> data[4],
              pitch |-> data[5], yaw_deg |-> data[6], valid |-> TRUE]
        ELSE DefaultRobotPose

GetOffsetPoint ==
    [valid |-> Get("offsetPoint/valid", FALSE),
     tag_id |-> Narrow(Get("offsetPoint/tag_id", I64(-1, -1))),
     x |-> Get("offsetPoint/x", 0),
     y |-> Get("offsetPoint/y", 0),
     z |-> Get("offsetPoint/z", 0),
     direct_distance |-> Get("offsetPoint/directDistance", 0),
     tx |-> Get("offsetPoint/tx", 0),
     ty |-> Get("offsetPoint/ty", 0)]

IsConnected == connections # {}

\* GetStatus reading the status without its default.
GetStatus_NoDefault ==
    [status |-> Get("status", ""),
     fps |-> Get("fps", 0),
     latency_ms |-> Get("latencyMs", 0),
     num_targets |-> GetNumTargets,
     nt_connected |-> IsConnected]

GetStatus ==
    [status |-> Get("status", "unknown"),
     fps |-> Get("fps", 0),
     latency_ms |-> Get("latencyMs", 0),
     num_targets |-> GetNumTargets,
     nt_connected |-> IsConnected]

PureQueries == {"HasTarget", "GetNumTargets", "GetTagIds", "GetRobotPose",
                "GetOffsetPoint", "GetStatus", "IsConnected"}

PureResult(o) ==
    CASE o = "HasTarget" -> HasTarget
      [] o = "GetNumTargets" -> GetNumTargets
      [] o = "GetTagIds" -> GetTagIds
      [] o = "GetRobotPose" -> GetRobotPose
      [] o = "GetOffsetPoint" -> GetOffsetPoint
      [] o = "GetStatus" -> GetStatus
      [] o = "IsConnected" -> IsConnected

\* Thread t calls the read-only query o.
Call(t, o) ==
    /\ th[t].pc = "idle"
    /\ ret' = Returned(t, o, 0, <<>>, PureResult(o))
    /\ UNCHANGED <<table, server, started, connections, subscriptions, publishers,
                   topics, tag_topics, tag_subs, opened, input, on_new_targets,
                   invoked, traffic, th>>

-----------------------------------------------------------------------------
(* Impl::ReadTag and Impl::GetTagSubs *)

\* ReadTag once GetTagSubs has handed out the subscriber set of id.
ReadTag(id) ==
    [id |-> id,
     tx |-> TagGet(id, "tx", 0),
     ty |-> TagGet(id, "ty", 0),
     x |-> TagGet(id, "x", 0),
     y |-> TagGet(id, "y", 0),
     z |-> TagGet(id, "z", 0),
     distance |-> TagGet(id, "distance", 0),
     yaw |-> TagGet(id, "yaw", 0),
     pitch |-> TagGet(id, "pitch", 0),
     roll |-> TagGet(id, "roll", 0)]

\* ReadTag over todo[k..] for as long as GetTagSubs finds the id in the map (keys):
\* the index reached and the records read.
RECURSIVE Scan(_, _, _, _)
Scan(keys, todo, k, out) ==
    IF k > Len(todo) \/ todo[k] \notin keys
    THEN [k |-> k, out |-> out]
    ELSE Scan(keys, todo, k + 1, Append(out, ReadTag(todo[k])))

\* What the call o returns from the records read.
Result(o, out) ==
    CASE o = "GetPrimaryTarget" -> out[1]
      [] o = "GetTarget" -> <<out[1]>>
      [] o = "GetAllTargets" -> out

\* Thread t goes on with call o: it returns when every id of todo was read, and
\* stops in GetTagSubs at the first id the map does not hold.
Proceed(t, o, a, ids, todo, k, out, keys) ==
    LET r == Scan(keys, todo, k, out)
    IN  IF r.k > Len(todo)
        THEN /\ th' = [th EXCEPT ![t] = IdleThread]
             /\ ret' = Returned(t, o, a, ids, Result(o, r.out))
        ELSE /\ th' = [th EXCEPT ![t] = [pc |-> "subscribe", op |-> o, arg |-> a,
                                          ids |-> ids, todo |-> todo, k |-> r.k,
                                          out |-> r.out, id |-> todo[r.k], h |-> 0]]
             /\ ret' = ret

\* GetTagSubs after a miss: the nine Subscribe calls on targets/<id>/.  They go
\* through table, which is set: no id is read before Init, since no value is
\* received before Init.
SubscribeTag(t) ==
    /\ th[t].pc = "subscribe"
    /\ opened' = [opened EXCEPT ![th[t].id] = @ + 1]
    /\ th' = [th EXCEPT ![t].pc = "insert", ![t].h = opened[th[t].id] + 1]
    /\ UNCHANGED <<table, server, started, connections, subscriptions, publishers,
                   topics, tag_topics, tag_subs, input, on_new_targets, invoked,
                   traffic, ret>>

\* tag_subs[id] = std::move(ts): the map stores the set built, in place of any set
\* stored for id meanwhile; ReadTag then reads through it and the call goes on.
InsertTag(t) ==
    /\ th[t].pc = "insert"
    /\ tag_subs' = [i \in DOMAIN tag_subs \cup {th[t].id} |->
                        IF i = th[t].id THEN th[t].h ELSE tag_subs[i]]
    /\ Proceed(t, th[t].op, th[t].arg, th[t].ids, th[t].todo, th[t].k, th[t].out,
               DOMAIN tag_subs \cup {th[t].id})
    /\ UNCHANGED <<table, server, started, connections, subscriptions, publishers,
                   topics, tag_topics, opened, input, on_new_targets, invoked,
                   traffic>>

-----------------------------------------------------------------------------
(* Queries that read tags *)

GetPrimaryTarget(t) ==
    /\ th[t].pc = "idle"
    /\ LET id == Narrow(Get("primaryTagId", I64(-1, -1)))
       IN  IF id < 0
           THEN /\ ret' = Returned(t, "GetPrimaryTarget", id, <<>>, DefaultTagResult)
                /\ th' = th
           ELSE Proceed(t, "GetPrimaryTarget", id, <<>>, <<id>>, 1, <<>>,
                        DOMAIN tag_subs)
    /\ UNCHANGED <<table, server, started, connections, subscriptions, publishers,
                   topics, tag_topics, tag_subs, opened, input, on_new_targets,
                   invoked, traffic>>

\* GetTarget without the membership test.
GetTarget_Unchecked(t, tag_id) ==
    /\ th[t].pc = "idle"
    /\ Proceed(t, "GetTarget", tag_id, GetTagIds, <<tag_id>>, 1, <<>>, DOMAIN tag_subs)
    /\ UNCHANGED <<table, server, started, connections, subscriptions, publishers,
                   topics, tag_topics, tag_subs, opened, input, on_new_targets,
                   invoked, traffic>>

GetTarget(t, tag_id) ==
    /\ th[t].pc = "idle"
    /\ LET ids == GetTagIds
       IN  IF tag_id \notin Range(ids)
           THEN /\ ret' = Returned(t, "GetTarget", tag_id, ids, <<>>)
                /\ th' = th
           ELSE Proceed(t, "GetTarget", tag_id, ids, <<tag_id>>, 1, <<>>,
                        DOMAIN tag_subs)
    /\ UNCHANGED <<table, server, started, connections, subscriptions, publishers,
                   topics, tag_topics, tag_subs, opened, input, on_new_targets,
                   invoked, traffic>>

\* The ids of s, each kept once.
RECURSIVE Dedup(_)
Dedup(s) ==
    IF Len(s) = 0 THEN <<>>
    ELSE LET r == Dedup(SubSeq(s, 1, Len(s) - 1))
         IN  IF s[Len(s)] \in Range(r) THEN r ELSE Append(r, s[Len(s)])

\* GetAllTargets reading every id once.
GetAllTargets_Dedup(t) ==
    /\ th[t].pc = "idle"
    /\ LET ids == GetTagIds
       IN  Proceed(t, "GetAllTargets", 0, ids, Dedup(ids), 1, <<>>, DOMAIN tag_subs)
    /\ UNCHANGED <<table, server, started, connections, subscriptions, publishers,
                   topics, tag_topics, tag_subs, opened, input, on_new_targets,
                   invoked, traffic>>

GetAllTargets(t) ==
    /\ th[t].pc = "idle"
    /\ LET ids == GetTagIds
       IN  Proceed(t, "GetAllTargets", 0, ids, ids, 1, <<>>, DOMAIN tag_subs)
    /\ UNCHANGED <<table, server, started, connections, subscriptions, publishers,
                   topics, tag_topics, tag_subs, opened, input, on_new_targets,
                   invoked, traffic>>

-----------------------------------------------------------------------------
(* Inputs and the notification hook *)

\* Publisher::Set through a member: published if the member holds a publisher.
Set(path, v) ==
    IF table # Null /\ publishers[path] > 0
    THEN [input EXCEPT ![path] = Append(@, v)]
    ELSE input

Setter(t, o, path, v) ==
    /\ th[t].pc = "idle"
    /\ Len(input[path]) < MaxLog
    /\ input' = Set(path, v)
    /\ ret' = Returned(t, o, v, <<>>, <<>>)
    /\ UNCHANGED <<table, server, started, connections, subscriptions, publishers,
                   topics, tag_topics, tag_subs, opened, on_new_targets, invoked,
                   traffic, th>>

SetTurretAngle(t, angle_deg) == Setter(t, "SetTurretAngle", "input/turretAngle", angle_deg)

SetTurretEnabled(t, enabled) == Setter(t, "SetTurretEnabled", "input/turretEnabled", enabled)

\* SetMatchMode writing to the turret-enable publisher.
SetMatchMode_WrongTopic(t, enabled) ==
    Setter(t, "SetMatchMode", "input/turretEnabled", enabled)

SetMatchMode(t, enabled) == Setter(t, "SetMatchMode", "input/matchMode", enabled)

OnNewTargets(t, callback) ==
    /\ th[t].pc = "idle"
    /\ on_new_targets' = callback
    /\ ret' = Returned(t, "OnNewTargets", callback, <<>>, <<>>)
    /\ UNCHANGED <<table, server, started, connections, subscriptions, publishers,
                   topics, tag_topics, tag_subs, opened, input, invoked, traffic, th>>

-----------------------------------------------------------------------------
(* Specifications *)

\* One application thread looking up targets while the coprocessor publishes.
Next ==
    \/ Init("t1", "")
    \/ Connect
    \/ PubTagIds(LookupFeeds)
    \/ PubPrimaryTagId
    \/ PubTagField
    \/ GetPrimaryTarget("t1")
    \/ \E i \in QueryIds : GetTarget("t1", i)
    \/ SubscribeTag("t1")
    \/ InsertTag("t1")

Spec == Construct /\ [][Next]_vars

\* One application thread listing all targets while the coprocessor publishes.
NextAll ==
    \/ Init("t1", "")
    \/ Connect
    \/ PubTagIds(SeqsUpTo(WireIds, MaxIds))
    \/ PubTagField
    \/ GetAllTargets("t1")
    \/ SubscribeTag("t1")
    \/ InsertTag("t1")

SpecAll == Construct /\ [][NextAll]_vars

\* The robot pose feed and its query, across connection loss.
NextPose ==
    \/ Init("t1", "")
    \/ Connect
    \/ \E keep \in BOOLEAN : Disconnect(keep)
    \/ PubRobotPose
    \/ Call("t1", "GetRobotPose")

SpecPose == Construct /\ [][NextPose]_vars

\* Every query, with the scalar feeds and the offset point published or not.
NextStatus ==
    \/ Init("t1", "")
    \/ Connect
    \/ PubHasTarget
    \/ PubNumTargets
    \/ PubStatus
    \/ PubFps
    \/ PubLatency
    \/ PubOffset
    \/ \E o \in PureQueries : Call("t1", o)
    \/ GetPrimaryTarget("t1")
    \/ \E i \in QueryIds : GetTarget("t1", i)
    \/ GetAllTargets("t1")

SpecStatus == Construct /\ [][NextStatus]_vars

\* Init called again, with subscriber sets and received values in place.
NextInit ==
    \/ \E s \in Servers : Init("t1", s)
    \/ Connect
    \/ PubTagIds(LookupFeeds)
    \/ PubHasTarget
    \/ PubTagField
    \/ GetAllTargets("t1")
    \/ SubscribeTag("t1")
    \/ InsertTag("t1")
    \/ \E b \in BOOLEAN : SetMatchMode("t1", b)

SpecInit == Construct /\ [][NextInit]_vars

\* The three input setters, before and after Init.
NextInput ==
    \/ Init("t1", "")
    \/ Connect
    \/ PubHasTarget
    \/ \E v \in Angles : SetTurretAngle("t1", v)
    \/ \E b \in BOOLEAN : SetTurretEnabled("t1", b)
    \/ \E b \in BOOLEAN : SetMatchMode("t1", b)
    \/ Call("t1", "HasTarget")

SpecInput == Construct /\ [][NextInput]_vars

\* Two application threads querying targets at once.
NextMT ==
    \/ Init("t1", "")
    \/ Connect
    \/ PubTagIds(SharedFeeds)
    \/ \E t \in Threads : GetTarget(t, 0)
    \/ \E t \in Threads : GetAllTargets(t)
    \/ \E t \in Threads : SubscribeTag(t)
    \/ \E t \in Threads : InsertTag(t)

SpecMT == Construct /\ [][NextMT]_vars

\* Detection data arriving with a callback registered.  The transport's listener
\* and the application both keep running.
NextCb ==
    \/ Init("t1", "")
    \/ Connect
    \/ PubTagIds(LookupFeeds)
    \/ PubHasTarget
    \/ PubNumTargets
    \/ \E cb \in Callbacks : OnNewTargets("t1", cb)
    \/ GetAllTargets("t1")
    \/ SubscribeTag("t1")
    \/ InsertTag("t1")

SpecCb == Construct /\ [][NextCb]_vars /\ WF_vars(NextCb)

-----------------------------------------------------------------------------
(* Properties *)

\* Thread t completes a call of o in this step.
Completes(t, o) == ret'[t].n # ret[t].n /\ ret'[t].op = o

\* The value a fixed topic holds, <<>> standing for none.
Received(path) == IF Len(topics[path]) > 0 THEN topics[path][1] ELSE <<>>

\* C1: GetTarget(id) returns a TagResult exactly when id is an element of the tagIds
\* list the call read; it returns the empty optional otherwise, whatever subscriber
\* set the map holds for id and whatever primaryTagId says.
C1_GetTargetIffListed ==
    \A t \in MainThread :
        ret[t].op = "GetTarget" =>
            /\ Len(ret[t].val) = 1 <=> ret[t].arg \in Range(ret[t].ids)
            /\ Len(ret[t].val) = 0 <=> ret[t].arg \notin Range(ret[t].ids)

\* C1 witness: GetTarget(0) returned the empty optional with 0 absent from tagIds
\* while the map holds a subscriber set for 0, targets/0/tx holds a value of an
\* earlier frame and primaryTagId is still 0.
C1_Witness ==
    /\ ret["t1"].op = "GetTarget"
    /\ ret["t1"].arg = 0
    /\ Len(ret["t1"].val) = 0
    /\ ret["t1"].ids = GetTagIds
    /\ 0 \notin Range(GetTagIds)
    /\ 0 \in DOMAIN tag_subs
    /\ tag_topics[0]["tx"] = <<1>>
    /\ Len(topics["primaryTagId"]) > 0
    /\ Narrow(Received("primaryTagId")) = 0

\* C2: with a callback registered and detection data received, the callback now
\* registered is eventually the last one invoked.
C2_CallbackInvoked ==
    (on_new_targets # NoCallback /\ traffic)
        ~> (Len(invoked) > 0 /\ invoked[Len(invoked)] = on_new_targets)

\* C3: GetRobotPose returns valid exactly when the robotPose sequence received has
\* at least six elements; then x, y, z, roll, pitch, yaw_deg are its elements 1..6,
\* whatever follows them; with fewer elements, or none received, every field is zero.
C3_RobotPose ==
    [][\A t \in MainThread :
          Completes(t, "GetRobotPose") =>
              LET data == Received("robotPose")
                  pose == ret'[t].val
              IN  /\ pose.valid <=> Len(data) >= 6
                  /\ Len(data) >= 6 =>
                        /\ pose.x = data[1] /\ pose.y = data[2] /\ pose.z = data[3]
                        /\ pose.roll = data[4] /\ pose.pitch = data[5]
                        /\ pose.yaw_deg = data[6]
                  /\ Len(data) < 6 =>
                        /\ pose.x = 0 /\ pose.y = 0 /\ pose.z = 0
                        /\ pose.roll = 0 /\ pose.pitch = 0 /\ pose.yaw_deg = 0]_vars

\* C3 witness: GetRobotPose returned a valid pose read from a sequence of seven
\* elements.
C3_Witness ==
    /\ ret["t1"].op = "GetRobotPose"
    /\ ret["t1"].val.valid
    /\ Len(Received("robotPose")) = 7
    /\ ret["t1"].val.yaw_deg = Received("robotPose")[6]

\* C4: GetAllTargets returns one record per element of the tagIds list it read, in
\* the order of the list: the k-th record carries the k-th id.
C4_AllTargetsFollowTagIds ==
    \A t \in MainThread :
        ret[t].op = "GetAllTargets" =>
            /\ Len(ret[t].val) = Len(ret[t].ids)
            /\ \A k \in DOMAIN ret[t].ids : ret[t].val[k].id = ret[t].ids[k]

\* C4 witness: GetAllTargets returned two records for a list of two different ids,
\* and two records for a list that names one id twice.
C4_Witness ==
    /\ ret["t1"].op = "GetAllTargets"
    /\ ret["t1"].ids = <<0, -2>>
    /\ Len(ret["t1"].val) = 2
    /\ ret["t1"].val[1].id = 0
    /\ ret["t1"].val[1].tx = 1

\* C5: a record assembled for a negative id is the default TagResult and no
\* subscriber set is opened or stored for a negative id; a record assembled for an
\* id i >= 0 has id = i.
C5_NegativeIdIsDefault ==
    /\ \A i \in IdSpace : i < 0 => opened[i] = 0 /\ i \notin DOMAIN tag_subs
    /\ \A t \in MainThread :
        /\ ret[t].op = "GetPrimaryTarget" =>
              IF ret[t].arg < 0 THEN ret[t].val = DefaultTagResult
              ELSE ret[t].val.id = ret[t].arg
        /\ (ret[t].op = "GetTarget" /\ Len(ret[t].val) = 1) =>
              IF ret[t].arg < 0 THEN ret[t].val[1] = DefaultTagResult
              ELSE ret[t].val[1].id = ret[t].arg
        /\ ret[t].op = "GetAllTargets" =>
              \A k \in DOMAIN ret[t].val :
                  IF ret[t].ids[k] < 0 THEN ret[t].val[k] = DefaultTagResult
                  ELSE ret[t].val[k].id = ret[t].ids[k]

\* C6: at most one subscriber set is ever opened per targets/<id>/, and a set the
\* map stores is never replaced or removed.
C6_SubscribedOnce ==
    /\ \A i \in IdSpace : opened[i] <= 1
    /\ \A i \in DOMAIN tag_subs : tag_subs[i] = 1

ReadState == <<topics, tag_topics, tag_subs, opened, connections, on_new_targets>>

\* C9: an Init on a facade already initialised, with the server it already has or
\* with none, changes no query result and leaves the count of live subscribers and
\* publishers per topic as it was.
C9_InitIdempotent ==
    [][\A t \in MainThread :
          (Completes(t, "Init") /\ table # Null
               /\ (ret'[t].arg = "" \/ ret'[t].arg = server)) =>
              /\ \A o \in PureQueries : PureResult(o)' = PureResult(o)
              /\ ReadState' = ReadState
              /\ subscriptions' = subscriptions
              /\ publishers' = publishers
              /\ \A p \in SubPaths : subscriptions'[p] = 1
              /\ \A p \in InputPaths : publishers'[p] = 1
              /\ server' = server
              /\ table' = table]_vars

\* C9 witness: Init returned on a facade that had received values and stored a
\* subscriber set, so that it was not the first Init.
C9_Witness ==
    /\ ret["t1"].op = "Init"
    /\ ret["t1"].arg = "10.0.0.2"
    /\ server = "10.0.0.2"
    /\ traffic
    /\ Len(topics["tagIds"]) > 0
    /\ 0 \in DOMAIN tag_subs
    /\ subscriptions["tagIds"] = 1

\* Setter o on path forwards its argument as the next publication on path, and
\* changes no other input topic, no subscriber and no subscriber set.
Forwards(t, o, path) ==
    Completes(t, o) =>
        /\ input'[path] = Append(input[path], ret'[t].arg)
        /\ \A p \in InputPaths \ {path} : input'[p] = input[p]
        /\ subscriptions' = subscriptions
        /\ publishers' = publishers
        /\ tag_subs' = tag_subs
        /\ opened' = opened
        /\ topics' = topics

\* C10 as claimed: every setter call, at any time, is forwarded.
C10_EveryCallForwarded ==
    [][\A t \in MainThread :
          /\ Forwards(t, "SetTurretAngle", "input/turretAngle")
          /\ Forwards(t, "SetTurretEnabled", "input/turretEnabled")
          /\ Forwards(t, "SetMatchMode", "input/matchMode")]_vars

\* C10 amended: every setter call made after Init is forwarded.
C10_ForwardedAfterInit ==
    [][\A t \in MainThread :
          table # Null =>
              /\ Forwards(t, "SetTurretAngle", "input/turretAngle")
              /\ Forwards(t, "SetTurretEnabled", "input/turretEnabled")
              /\ Forwards(t, "SetMatchMode", "input/matchMode")]_vars

\* C10 witness: after Init, SetTurretAngle(45) returned and 45 is the last value
\* published on input/turretAngle, following an earlier one.
C10_Witness ==
    /\ table # Null
    /\ ret["t1"].op = "SetTurretAngle"
    /\ ret["t1"].arg = 45
    /\ input["input/turretAngle"] = <<0, 45>>
    /\ input["input/matchMode"] = <<>>

====
